---- MODULE Spec2Model ----
(***************************************************************************)
(* Model of the helm-ui backend: the HTTP handlers of                      *)
(* backend/internal/api/handler.go and the HelmService of                  *)
(* backend/internal/service/helm.go, over a small file system.             *)
(*                                                                         *)
(* Names and paths are sequences of tokens, so that formatting a file name *)
(* and cleaning a path are computed, not assumed.  File contents in the    *)
(* chart store and in the scratch directory are sequences of chunks, one   *)
(* chunk per write call of io.Copy.                                        *)
(***************************************************************************)
EXTENDS Integers, Sequences, FiniteSets, TLC

VARIABLES
  store,        \* chartsDir ("../charts"): file name -> sequence of chunks
  lastWriter,   \* history: the request that last wrote to each file of chartsDir
  scratchDir,   \* tempDir ("../temp"): file name -> inode
  inode,        \* contents of the scratch inodes, one per creating request
  files,        \* the rest of the file system: absolute path -> content
  dirs,         \* the rest of the file system: directories
  pc,           \* position of every request
  lv,           \* local variables of every request
  resp,         \* HTTP response of every request
  engineCalls   \* calls of the templating engine (action.Install.Run) per request

vars == <<store, lastWriter, scratchDir, inode, files, dirs, pc, lv, resp, engineCalls>>

(***************************************************************************)
(* Bounds                                                                  *)
(***************************************************************************)
\* largest number of write calls io.Copy needs for one archive
MaxChunks == 2
\* largest number of multipart parts of one directory upload
MaxParts == 2
\* the requests in flight
Req == {"r1", "r2"}

(***************************************************************************)
(* Paths (path/filepath)                                                   *)
(***************************************************************************)
RECURSIVE CleanFrom(_, _)
CleanFrom(acc, rest) ==
  IF rest = <<>> THEN acc
  ELSE LET s == Head(rest) IN
       IF s = ".." THEN CleanFrom(IF acc = <<>> THEN acc ELSE SubSeq(acc, 1, Len(acc) - 1), Tail(rest))
       ELSE IF s = "." THEN CleanFrom(acc, Tail(rest))
       ELSE CleanFrom(Append(acc, s), Tail(rest))

\* filepath.Clean of a rooted path: ".." removes the segment before it
Clean(p) == CleanFrom(<<>>, p)

\* filepath.Join(base, rel)
Join(base, rel) == Clean(base \o rel)

\* filepath.Dir
Dir(p) == IF p = <<>> THEN <<>> ELSE SubSeq(p, 1, Len(p) - 1)

\* filepath.Base
Base(p) == IF p = <<>> THEN <<>> ELSE <<p[Len(p)]>>

\* p is root or lies below it
IsUnder(root, p) == Len(p) >= Len(root) /\ SubSeq(p, 1, Len(root)) = root

\* the directories os.MkdirAll(d) makes sure exist
MkdirAllSet(d) == {SubSeq(d, 1, k) : k \in 1..Len(d)}

\* os.RemoveAll(root) on a set of paths
RemoveAllPaths(S, root) == {p \in S : ~IsUnder(root, p)}

\* os.Remove(root) in place of os.RemoveAll(root): a directory that is not
\* empty stays
RemoveAllFiles_NotRecursive(f, root) == f

\* os.RemoveAll(root) on the file table
RemoveAllFiles(f, root) == [p \in {q \in DOMAIN f : ~IsUnder(root, q)} |-> f[p]]

\* os.TempDir()
OsTempDir == <<"tmp">>

\* the directory os.MkdirTemp("", "chart-*") creates for request r
TempRoot(r) == OsTempDir \o <<"chart-" \o r>>

(***************************************************************************)
(* Charts and archives                                                     *)
(***************************************************************************)
NoMeta == [name |-> <<>>, version |-> <<>>]

\* Chart.yaml metadata the uploaded charts carry
ChartMetas ==
  { [name |-> <<"demo">>, version |-> <<"1.2.3">>],
    [name |-> <<"a", "-", "1">>, version |-> <<"2">>],
    [name |-> <<"a">>, version |-> <<"1", "-", "2">>] }

\* the rest of a chart (values, templates): two different contents
Bodies == {"x", "y"}

Charts == [meta : ChartMetas, body : Bodies]

\* chart.Validate(): name and version are required
ValidMeta(m) == m.name # <<>> /\ m.version # <<>>

\* fmt.Sprintf("%s-%s.tgz", name, version)
FileName(name, version) == name \o <<"-">> \o version \o <<".tgz">>

\* filepath.Ext(name) == ".tgz"
IsTgz(fname) == fname # <<>> /\ fname[Len(fname)] = ".tgz"

\* number of chunks of the archive of a chart
ChunksOf(c) == IF c.body = "x" THEN 1 ELSE MaxChunks

\* the bytes chartutil.Save writes for a chart, as chunks
Serialize(c) == [i \in 1..ChunksOf(c) |-> [chart |-> c, i |-> i]]

\* a file that is no chart archive
Junk == <<[chart |-> [meta |-> NoMeta, body |-> "junk"], i |-> 1]>>

\* the bytes a hole of a sparse file reads as
Hole == [chart |-> [meta |-> NoMeta, body |-> "zero"], i |-> 0]

\* loader.Load on archive bytes: the chart, or NoChart when they do not parse
NoChart == [meta |-> NoMeta, body |-> "none"]

Parse(bytes) ==
  IF \E c \in Charts : bytes = Serialize(c)
  THEN CHOOSE c \in Charts : bytes = Serialize(c)
  ELSE NoChart

\* write chunk b at offset off (0-based) of file contents f, as a write call
\* on a descriptor whose offset is off does
WriteAt(f, off, b) ==
  [i \in 1..(IF Len(f) > off + 1 THEN Len(f) ELSE off + 1) |->
     IF i = off + 1 THEN b
     ELSE IF i <= Len(f) THEN f[i]
     ELSE Hole]

(***************************************************************************)
(* Requests                                                                *)
(***************************************************************************)
NoIno == "none"

\* the local variables of a request before it starts
InitLv ==
  [ op       |-> "none",     \* the handler serving the request
    fname    |-> <<>>,       \* UploadChart: filename
    src      |-> <<>>,       \* UploadChart: bytes of the uploaded multipart file
    ino      |-> NoIno,      \* the scratch inode the open chartFile refers to
    off      |-> 0,          \* offset of the descriptor being written
    n        |-> 0,          \* UploadChartDir: parts handled so far
    created  |-> FALSE,      \* UploadChartDir: os.MkdirTemp succeeded
    escaped  |-> FALSE,      \* UploadChartDir: a handled part resolved outside tempDir
    chart    |-> NoChart,    \* the chart loader.Load returned
    name     |-> <<>>,       \* :name
    version  |-> <<>>,       \* :version
    bound    |-> FALSE,      \* RenderChart: c.BindJSON succeeded
    release  |-> "",         \* RenderRequest.Name
    sel      |-> <<>>,       \* selectedFiles
    absent   |-> FALSE,      \* Load found no file at chartPath
    pre      |-> <<>>,       \* history: the store file as UploadChart found it, if any
    stored   |-> FALSE,      \* the engine wrote a release record
    cluster  |-> FALSE,      \* the engine contacted the cluster
    manifest |-> <<>> ]      \* rel.Manifest

NoResp == [status |-> 0, err |-> "", body |-> <<>>]

Init ==
  /\ store = <<>>
  /\ lastWriter = <<>>
  /\ scratchDir = <<>>
  /\ inode = [r \in Req |-> <<>>]
  /\ files = <<>>
  /\ dirs = {OsTempDir}
  /\ pc = [r \in Req |-> "idle"]
  /\ lv = [r \in Req |-> InitLv]
  /\ resp = [r \in Req |-> NoResp]
  /\ engineCalls = [r \in Req |-> 0]

\* the directory is emptied before the file is created
Put_Wipe(f, k, v) == [x \in {k} |-> v]

\* f with key k bound to v
Put(f, k, v) == [x \in DOMAIN f \cup {k} |-> IF x = k THEN v ELSE f[x]]

\* f without key k
Drop(f, k) == [x \in DOMAIN f \ {k} |-> f[x]]

\* c.JSON(status, ...) followed by the return of the handler; the deferred
\* os.RemoveAll(tempDir) of UploadChartDir runs on every return after
\* os.MkdirTemp succeeded
Return(r, status, err, body) ==
  /\ pc' = [pc EXCEPT ![r] = "done"]
  /\ resp' = [resp EXCEPT ![r] = [status |-> status, err |-> err, body |-> body]]
  /\ IF lv[r].created
     THEN /\ files' = RemoveAllFiles(files, TempRoot(r))
          /\ dirs' = RemoveAllPaths(dirs, TempRoot(r))
     ELSE UNCHANGED <<files, dirs>>

(***************************************************************************)
(* Handler.UploadChart and HelmService.UploadChart                         *)
(***************************************************************************)
\* the archives and other files a client may post
UploadPayloads == {Serialize(c) : c \in Charts} \cup {Junk}

\* header.Filename, the base name the client declared
UploadNames == {FileName(m.name, m.version) : m \in ChartMetas} \cup {<<"notes.txt">>}

\* c.Request.FormFile("chart") fails
UploadChartNoFile(r) ==
  /\ pc[r] = "idle"
  /\ Return(r, 400, "No chart file uploaded", <<>>)
  /\ lv' = [lv EXCEPT ![r].op = "upload"]
  /\ UNCHANGED <<store, lastWriter, scratchDir, inode, engineCalls>>

\* history: the file of this name as a call of UploadChart finds it
Snapshot(st, f) == IF f \in DOMAIN st THEN <<st[f]>> ELSE <<>>

\* c.Request.FormFile("chart") succeeds; the service is called
UploadChartStart(r) ==
  /\ pc[r] = "idle"
  /\ \E p \in UploadPayloads, f \in UploadNames :
       lv' = [lv EXCEPT ![r].op = "upload", ![r].fname = f, ![r].src = p,
                        ![r].pre = Snapshot(store, f)]
  /\ pc' = [pc EXCEPT ![r] = "up_create"]
  /\ UNCHANGED <<store, lastWriter, scratchDir, inode, files, dirs, resp, engineCalls>>

\* the error return of HelmService.UploadChart, through UploadChartDir when
\* it is the caller, to the handler
UploadFailed(r, err) ==
  /\ Return(r, 500, err, <<>>)
  /\ UNCHANGED <<lv, scratchDir, inode, engineCalls>>

\* os.MkdirAll(chartsDir) and os.Create(chartsDir/filename): the file is
\* created or truncated
UpCreate(r) ==
  /\ pc[r] = "up_create"
  /\ store' = Put(store, lv[r].fname, <<>>)
  /\ lastWriter' = Put(lastWriter, lv[r].fname, r)
  /\ lv' = [lv EXCEPT ![r].off = 0]
  /\ pc' = [pc EXCEPT ![r] = "up_copy"]
  /\ UNCHANGED <<scratchDir, inode, files, dirs, resp, engineCalls>>

\* os.MkdirAll or os.Create fails
UpCreateFail(r) ==
  /\ pc[r] = "up_create"
  /\ UploadFailed(r, "failed to create chart file")
  /\ UNCHANGED <<store, lastWriter>>

\* the bytes the reader chartFile delivers
Source(r) == IF lv[r].ino = NoIno THEN lv[r].src ELSE inode[lv[r].ino]

\* io.Copy: one read of the source and one write at the descriptor's offset
UpCopy(r) ==
  /\ pc[r] = "up_copy"
  /\ lv[r].off < Len(Source(r))
  /\ store' = [store EXCEPT ![lv[r].fname] = WriteAt(@, lv[r].off, Source(r)[lv[r].off + 1])]
  /\ lastWriter' = Put(lastWriter, lv[r].fname, r)
  /\ lv' = [lv EXCEPT ![r].off = @ + 1]
  /\ UNCHANGED <<scratchDir, inode, files, dirs, pc, resp, engineCalls>>

\* io.Copy fails on a read or a write
UpCopyFail(r) ==
  /\ pc[r] = "up_copy"
  /\ lv[r].off < Len(Source(r))
  /\ UploadFailed(r, "failed to copy chart file")
  /\ UNCHANGED <<store, lastWriter>>

\* io.Copy reaches the end of the source; UploadChart returns nil
UpCopyDone(r) ==
  /\ pc[r] = "up_copy"
  /\ lv[r].off >= Len(Source(r))
  /\ IF lv[r].op = "upload"
     THEN /\ Return(r, 200, "", <<>>)
          /\ UNCHANGED lv
     ELSE /\ pc' = [pc EXCEPT ![r] = "dir_remove"]
          /\ UNCHANGED <<files, dirs, resp, lv>>
  /\ UNCHANGED <<store, lastWriter, scratchDir, inode, engineCalls>>

(***************************************************************************)
(* Handler.UploadChartDir                                                  *)
(***************************************************************************)
\* Chart.yaml whose metadata fails chart.Validate()
BadMeta == [name |-> <<>>, version |-> <<"0">>]

\* params["filename"] of a part: the declared relative path, as the client
\* sent it
PartPaths ==
  { <<"Chart.yaml">>, <<"values.yaml">>, <<"templates", "d.yaml">>,
    <<"t", "..", "Chart.yaml">>, <<"..", "x", "evil">> }

\* the contents a part declared as path may carry
PartContents(path) ==
  IF path[Len(path)] = "Chart.yaml"
  THEN {[meta |-> m, text |-> ""] : m \in ChartMetas \cup {BadMeta}}
  ELSE {[meta |-> NoMeta, text |-> "y"]}

\* c.MultipartForm() fails: malformed body, or the client went away while
\* the body was read
UploadChartDirBadForm(r) ==
  /\ pc[r] = "idle"
  /\ Return(r, 400, "Invalid form data", <<>>)
  /\ lv' = [lv EXCEPT ![r].op = "uploadDir"]
  /\ UNCHANGED <<store, lastWriter, scratchDir, inode, engineCalls>>

\* c.MultipartForm() succeeds
UploadChartDirStart(r) ==
  /\ pc[r] = "idle"
  /\ lv' = [lv EXCEPT ![r].op = "uploadDir"]
  /\ pc' = [pc EXCEPT ![r] = "dir_mktemp"]
  /\ UNCHANGED <<store, lastWriter, scratchDir, inode, files, dirs, resp, engineCalls>>

\* os.MkdirTemp("", "chart-*") and defer os.RemoveAll(tempDir)
DirMkdirTemp(r) ==
  /\ pc[r] = "dir_mktemp"
  /\ dirs' = dirs \cup {TempRoot(r)}
  /\ lv' = [lv EXCEPT ![r].created = TRUE]
  /\ pc' = [pc EXCEPT ![r] = "dir_files"]
  /\ UNCHANGED <<store, lastWriter, scratchDir, inode, files, resp, engineCalls>>

\* os.MkdirTemp fails
DirMkdirTempFail(r) ==
  /\ pc[r] = "dir_mktemp"
  /\ Return(r, 500, "Failed to create temporary directory", <<>>)
  /\ UNCHANGED <<lv, store, lastWriter, scratchDir, inode, engineCalls>>

\* len(files) == 0
DirNoFiles(r) ==
  /\ pc[r] = "dir_files"
  /\ lv[r].n = 0
  /\ Return(r, 400, "No files uploaded", <<>>)
  /\ UNCHANGED <<lv, store, lastWriter, scratchDir, inode, engineCalls>>

\* mime.ParseMediaType fails on the part's Content-Disposition header
DirBadHeader(r) ==
  /\ pc[r] = "dir_files"
  /\ lv[r].n < MaxParts
  /\ Return(r, 400, "Invalid Content-Disposition header for file", <<>>)
  /\ UNCHANGED <<lv, store, lastWriter, scratchDir, inode, engineCalls>>

\* relativePath == ""
DirNoPath(r) ==
  /\ pc[r] = "dir_files"
  /\ lv[r].n < MaxParts
  /\ Return(r, 400, "File path is missing in Content-Disposition header", <<>>)
  /\ UNCHANGED <<lv, store, lastWriter, scratchDir, inode, engineCalls>>

\* targetPath := filepath.Join(tempDir, relativePath)
TargetPath(r, rel) == Join(TempRoot(r), rel)

\* one iteration of the loop over the parts: os.MkdirAll(targetDir) and
\* c.SaveUploadedFile(file, targetPath)
DirSavePart(r) ==
  /\ pc[r] = "dir_files"
  /\ lv[r].n < MaxParts
  /\ \E rel \in PartPaths :
       \E c \in PartContents(rel) :
         LET target == TargetPath(r, rel) IN
         /\ dirs' = dirs \cup MkdirAllSet(Dir(target))
         /\ files' = Put(files, target, c)
         /\ lv' = [lv EXCEPT ![r].n = @ + 1,
                             ![r].escaped = @ \/ ~IsUnder(TempRoot(r), target)]
  /\ UNCHANGED <<store, lastWriter, scratchDir, inode, pc, resp, engineCalls>>

\* os.MkdirAll or c.SaveUploadedFile fails
DirSavePartFail(r) ==
  /\ pc[r] = "dir_files"
  /\ lv[r].n < MaxParts
  /\ Return(r, 500, "Failed to save file", <<>>)
  /\ UNCHANGED <<lv, store, lastWriter, scratchDir, inode, engineCalls>>

\* the loop is over: h.helmService.UploadChartDir(tempDir)
DirCallService(r) ==
  /\ pc[r] = "dir_files"
  /\ lv[r].n > 0
  /\ pc' = [pc EXCEPT ![r] = "pk_load"]
  /\ UNCHANGED <<lv, store, lastWriter, scratchDir, inode, files, dirs, resp, engineCalls>>

(***************************************************************************)
(* HelmService.PackageChart and HelmService.UploadChartDir                 *)
(***************************************************************************)
\* loader.Load(chartDir): the chart of the directory tree, NoChart when
\* Chart.yaml is missing or does not validate
LoadDir(f, root) ==
  LET cy == root \o <<"Chart.yaml">>
      vy == root \o <<"values.yaml">>
  IN IF cy \in DOMAIN f /\ ValidMeta(f[cy].meta)
     THEN [meta |-> f[cy].meta, body |-> IF vy \in DOMAIN f THEN f[vy].text ELSE "x"]
     ELSE NoChart

\* a packaged file name without the version
PackagedFileName_NoVersion(c) == c.meta.name \o <<".tgz">>

\* packagedFileName of the chart PackageChart loaded
PackagedFileName(c) == FileName(c.meta.name, c.meta.version)

\* loader.Load(chartDir) in PackageChart
PkLoad(r) ==
  /\ pc[r] = "pk_load"
  /\ LoadDir(files, TempRoot(r)) # NoChart
  /\ lv' = [lv EXCEPT ![r].chart = LoadDir(files, TempRoot(r))]
  /\ pc' = [pc EXCEPT ![r] = "pk_save"]
  /\ UNCHANGED <<store, lastWriter, scratchDir, inode, files, dirs, resp, engineCalls>>

\* loader.Load(chartDir) fails
PkLoadFail(r) ==
  /\ pc[r] = "pk_load"
  /\ LoadDir(files, TempRoot(r)) = NoChart
  /\ Return(r, 500, "failed to load chart", <<>>)
  /\ UNCHANGED <<lv, store, lastWriter, scratchDir, inode, engineCalls>>

\* os.MkdirAll(tempDir) and the os.Create of chartutil.Save: the packaged
\* file is created, or truncated when the name exists
PkSave(r) ==
  /\ pc[r] = "pk_save"
  /\ LET f == PackagedFileName(lv[r].chart)
         i == IF f \in DOMAIN scratchDir THEN scratchDir[f] ELSE r
     IN /\ scratchDir' = Put(scratchDir, f, i)
        /\ inode' = [inode EXCEPT ![i] = <<>>]
        /\ lv' = [lv EXCEPT ![r].ino = i, ![r].off = 0]
  /\ pc' = [pc EXCEPT ![r] = "pk_write"]
  /\ UNCHANGED <<store, lastWriter, files, dirs, resp, engineCalls>>

\* os.MkdirAll(tempDir) or the os.Create of chartutil.Save fails
PkSaveFail(r) ==
  /\ pc[r] = "pk_save"
  /\ Return(r, 500, "failed to package chart", <<>>)
  /\ UNCHANGED <<lv, store, lastWriter, scratchDir, inode, engineCalls>>

\* chartutil.Save writes the archive
PkWrite(r) ==
  /\ pc[r] = "pk_write"
  /\ lv[r].off < Len(Serialize(lv[r].chart))
  /\ inode' = [inode EXCEPT ![lv[r].ino] = WriteAt(@, lv[r].off, Serialize(lv[r].chart)[lv[r].off + 1])]
  /\ lv' = [lv EXCEPT ![r].off = @ + 1]
  /\ UNCHANGED <<store, lastWriter, scratchDir, files, dirs, pc, resp, engineCalls>>

\* chartutil.Save closes the file; PackageChart returns packagedFilePath
PkWriteDone(r) ==
  /\ pc[r] = "pk_write"
  /\ lv[r].off >= Len(Serialize(lv[r].chart))
  /\ lv' = [lv EXCEPT ![r].ino = NoIno, ![r].off = 0]
  /\ pc' = [pc EXCEPT ![r] = "dir_open"]
  /\ UNCHANGED <<store, lastWriter, scratchDir, inode, files, dirs, resp, engineCalls>>

\* os.Open(packagedFilePath); fileName := filepath.Base(packagedFilePath)
DirOpen(r) ==
  /\ pc[r] = "dir_open"
  /\ PackagedFileName(lv[r].chart) \in DOMAIN scratchDir
  /\ lv' = [lv EXCEPT ![r].ino = scratchDir[PackagedFileName(lv[r].chart)],
                      ![r].fname = PackagedFileName(lv[r].chart),
                      ![r].pre = Snapshot(store, PackagedFileName(lv[r].chart))]
  /\ pc' = [pc EXCEPT ![r] = "up_create"]
  /\ UNCHANGED <<store, lastWriter, scratchDir, inode, files, dirs, resp, engineCalls>>

\* os.Open(packagedFilePath) fails: the file is gone
DirOpenFail(r) ==
  /\ pc[r] = "dir_open"
  /\ PackagedFileName(lv[r].chart) \notin DOMAIN scratchDir
  /\ Return(r, 500, "failed to open packaged chart", <<>>)
  /\ UNCHANGED <<lv, store, lastWriter, scratchDir, inode, engineCalls>>

\* os.Remove(packagedFilePath) and the return of nil
DirRemove(r) ==
  /\ pc[r] = "dir_remove"
  /\ lv[r].fname \in DOMAIN scratchDir
  /\ scratchDir' = Drop(scratchDir, lv[r].fname)
  /\ Return(r, 200, "", <<>>)
  /\ UNCHANGED <<lv, store, lastWriter, inode, engineCalls>>

\* os.Remove(packagedFilePath) fails
DirRemoveFail(r) ==
  /\ pc[r] = "dir_remove"
  /\ lv[r].fname \notin DOMAIN scratchDir
  /\ Return(r, 500, "failed to clean up temporary file", <<>>)
  /\ UNCHANGED <<lv, store, lastWriter, scratchDir, inode, engineCalls>>

(***************************************************************************)
(* Chart Store reads: GetChartValues, ListCharts, ListChartVersions        *)
(***************************************************************************)
\* the :name/:version pairs a client may ask for
Ghost == [name |-> <<"ghost">>, version |-> <<"0">>]

LoadKeys == ChartMetas \cup {Ghost}

\* chartPath of GetChartValues, RenderChart and ListChartFiles, relative to
\* chartsDir
ChartPath(name, version) == FileName(name, version)

\* a loader that answers a missing or unreadable file with an empty chart
Load_NoError(st, name, version) ==
  IF ChartPath(name, version) \in DOMAIN st /\ Parse(st[ChartPath(name, version)]) # NoChart
  THEN Parse(st[ChartPath(name, version)])
  ELSE [meta |-> [name |-> name, version |-> version], body |-> "x"]

\* loader.Load(chartPath): the chart, NoChart when the file is missing or
\* does not parse
Load(st, name, version) ==
  IF ChartPath(name, version) \in DOMAIN st
  THEN Parse(st[ChartPath(name, version)])
  ELSE NoChart

\* the error a failed loader.Load is wrapped in
LoadError == "failed to load chart"

\* Handler.GetChartValues and HelmService.GetChartValues
GetChartValues(r) ==
  /\ pc[r] = "idle"
  /\ \E k \in LoadKeys :
       LET c == Load(store, k.name, k.version) IN
       /\ lv' = [lv EXCEPT ![r].op = "values", ![r].name = k.name, ![r].version = k.version,
                           ![r].chart = c,
                           ![r].absent = ChartPath(k.name, k.version) \notin DOMAIN store]
       /\ IF c = NoChart
          THEN Return(r, 500, LoadError, <<>>)
          ELSE Return(r, 200, "", <<c.body>>)
  /\ UNCHANGED <<store, lastWriter, scratchDir, inode, engineCalls>>

\* the names of chart.Raw
RawFiles(c) == IF c.body = "x" THEN <<"Chart.yaml">> ELSE <<"Chart.yaml", "values.yaml">>

\* HelmService.ListChartFiles
ListChartFiles(r) ==
  /\ pc[r] = "idle"
  /\ \E k \in LoadKeys :
       LET c == Load(store, k.name, k.version) IN
       /\ lv' = [lv EXCEPT ![r].op = "files", ![r].name = k.name, ![r].version = k.version,
                           ![r].chart = c,
                           ![r].absent = ChartPath(k.name, k.version) \notin DOMAIN store]
       /\ IF c = NoChart
          THEN Return(r, 500, LoadError, <<>>)
          ELSE Return(r, 200, "", RawFiles(c))
  /\ UNCHANGED <<store, lastWriter, scratchDir, inode, engineCalls>>

\* the entries of chartsDir ListCharts keeps
ListedCharts(st) == {f \in DOMAIN st : IsTgz(f)}

\* Handler.ListCharts and HelmService.ListCharts
ListCharts(r) ==
  /\ pc[r] = "idle"
  /\ lv' = [lv EXCEPT ![r].op = "list"]
  /\ Return(r, 200, "", ListedCharts(store))
  /\ UNCHANGED <<store, lastWriter, scratchDir, inode, engineCalls>>

\* a match of the name stem in place of the comparison with the whole name
ListedVersions_Stem(st, name) ==
  {f \in DOMAIN st : IsTgz(f) /\ Len(f) > Len(name) /\ SubSeq(f, 1, Len(name)) = name}

\* the entries of chartsDir ListChartVersions keeps
ListedVersions(st, name) == {f \in DOMAIN st : IsTgz(f) /\ f = name}

\* the :name a client may ask the versions of
VersionNames == {m.name : m \in ChartMetas} \cup {FileName(m.name, m.version) : m \in ChartMetas}

\* Handler.ListChartVersions and HelmService.ListChartVersions
ListChartVersions(r) ==
  /\ pc[r] = "idle"
  /\ \E n \in VersionNames :
       /\ lv' = [lv EXCEPT ![r].op = "versions", ![r].name = n]
       /\ Return(r, 200, "", ListedVersions(store, n))
  /\ UNCHANGED <<store, lastWriter, scratchDir, inode, engineCalls>>

\* os.ReadDir(chartsDir) fails in ListCharts or ListChartVersions
ReadDirFail(r) ==
  /\ pc[r] = "idle"
  /\ \E o \in {"list", "versions"} : lv' = [lv EXCEPT ![r].op = o]
  /\ Return(r, 500, "failed to read charts directory", <<>>)
  /\ UNCHANGED <<store, lastWriter, scratchDir, inode, engineCalls>>

(***************************************************************************)
(* Rendered manifests                                                      *)
(***************************************************************************)
\* the line that separates two documents of rel.Manifest
Sep == "\n---\n"

\* template files of a chart
P1 == <<"templates/", "d", ".yaml">>
P2 == <<"templates/", "s", ".yaml">>

SelPaths == {P1, P2}

\* largest number of selectedFiles of a render call
MaxSel == 2

RECURSIVE SeqsUpTo(_, _)
SeqsUpTo(S, n) ==
  IF n = 0 THEN {<<>>}
  ELSE LET shorter == SeqsUpTo(S, n - 1) IN
       shorter \cup {Append(q, x) : q \in shorter, x \in S}

Selections == SeqsUpTo(SelPaths, MaxSel)

\* fmt.Sprintf("# Source: %s", fmt.Sprintf("%s/%s", name, selectedFile))
SourceMarker(name, selectedFile) == <<"# Source: ">> \o name \o <<"/">> \o selectedFile

\* a document the engine renders from template file p
Doc(name, p, kind) == SourceMarker(name, p) \o <<"\n", "kind: ", kind>>

\* a document without a kind
NoKindDoc(name, p) == SourceMarker(name, p) \o <<"\n", "data: 1">>

\* a document that is no YAML and carries no marker
BadDoc == <<"{{ bad">>

\* the combined outputs the engine may return for a chart of this name
EngineOutputs(name) ==
  { Doc(name, P1, "Deployment") \o <<Sep>> \o Doc(name, P2, "Service"),
    Doc(name, P2, "Service") \o <<Sep>> \o <<Sep>> \o BadDoc,
    NoKindDoc(name, P1) \o <<Sep>> \o Doc(name, P1, "Deployment") }

\* strings.TrimSpace
RECURSIVE TrimLeft(_)
TrimLeft(t) == IF t # <<>> /\ Head(t) = "\n" THEN TrimLeft(Tail(t)) ELSE t

RECURSIVE TrimRight(_)
TrimRight(t) == IF t # <<>> /\ t[Len(t)] = "\n" THEN TrimRight(SubSeq(t, 1, Len(t) - 1)) ELSE t

TrimSpace(t) == TrimRight(TrimLeft(t))

\* sep.Split(bigFile, -1): the pieces between the separators
RECURSIVE SplitFrom(_, _, _)
SplitFrom(done, cur, rest) ==
  IF rest = <<>> THEN Append(done, cur)
  ELSE IF Head(rest) = Sep THEN SplitFrom(Append(done, cur), <<>>, Tail(rest))
  ELSE SplitFrom(done, Append(cur, Head(rest)), Tail(rest))

\* the non-empty pieces, trimmed
RECURSIVE NonEmptyDocs(_)
NonEmptyDocs(ds) ==
  IF ds = <<>> THEN <<>>
  ELSE IF Head(ds) = <<>> THEN NonEmptyDocs(Tail(ds))
  ELSE <<TrimSpace(Head(ds))>> \o NonEmptyDocs(Tail(ds))

\* releaseutil.SplitManifests: the documents, keyed manifest-0, manifest-1, ...;
\* here the key is the index
SplitManifests(bigFile) == NonEmptyDocs(SplitFrom(<<>>, <<>>, TrimSpace(bigFile)))

\* strings.Contains
Contains(text, pat) ==
  \E i \in 1..(Len(text) - Len(pat) + 1) : SubSeq(text, i, i + Len(pat) - 1) = pat

\* the orders in which a range over a map with these keys may visit them
Orders(keys) ==
  {o \in [1..Cardinality(keys) -> keys] : \A k \in keys : \E i \in DOMAIN o : o[i] = k}

\* the inner loop without the strings.Contains test
MatchesIn_Unfiltered(manifests, o, marker) == o

\* the inner loop of RenderChart for one selectedFile, visiting the
\* manifests in order o
RECURSIVE MatchesIn(_, _, _)
MatchesIn(manifests, o, marker) ==
  IF o = <<>> THEN <<>>
  ELSE (IF Contains(manifests[Head(o)], marker) THEN <<Head(o)>> ELSE <<>>)
       \o MatchesIn(manifests, Tail(o), marker)

\* the outer loop of RenderChart: the possible values of filteredManifests, as
\* sequences of manifest keys
RECURSIVE Filtered(_, _, _)
Filtered(manifests, name, selectedFiles) ==
  IF selectedFiles = <<>> THEN {<<>>}
  ELSE LET first == {MatchesIn(manifests, o, SourceMarker(name, Head(selectedFiles))) :
                       o \in Orders(DOMAIN manifests)}
       IN {a \o b : a \in first, b \in Filtered(manifests, name, Tail(selectedFiles))}

\* strings.Join(filteredManifests, "\n---\n")
RECURSIVE JoinDocs(_)
JoinDocs(ds) ==
  IF ds = <<>> THEN <<>>
  ELSE IF Len(ds) = 1 THEN ds[1]
  ELSE ds[1] \o <<Sep>> \o JoinDocs(Tail(ds))

\* the values RenderChart may return for rel.Manifest
RenderResults(manifest, name, selectedFiles) ==
  IF Len(selectedFiles) > 0
  THEN LET ms == SplitManifests(manifest) IN
       {JoinDocs([i \in DOMAIN ks |-> ms[ks[i]]]) : ks \in Filtered(ms, name, selectedFiles)}
  ELSE {manifest}

(***************************************************************************)
(* Handler.RenderChart and HelmService.RenderChart                         *)
(***************************************************************************)
\* req.Name of a render request
ReleaseNames == {"", "rel"}

\* c.BindJSON(&req) fails
RenderBadJSON(r) ==
  /\ pc[r] = "idle"
  /\ lv' = [lv EXCEPT ![r].op = "render"]
  /\ Return(r, 400, "Invalid request format", <<>>)
  /\ UNCHANGED <<store, lastWriter, scratchDir, inode, engineCalls>>

\* c.BindJSON(&req) succeeds
RenderBind(r) ==
  /\ pc[r] = "idle"
  /\ \E rel \in ReleaseNames, k \in LoadKeys :
       lv' = [lv EXCEPT ![r].op = "render", ![r].bound = TRUE, ![r].release = rel,
                        ![r].name = k.name, ![r].version = k.version]
  /\ pc' = [pc EXCEPT ![r] = "rn_check"]
  /\ UNCHANGED <<store, lastWriter, scratchDir, inode, files, dirs, resp, engineCalls>>

\* the check of req.Name left out
NameMissing_Unchecked(name) == FALSE

\* req.Name == ""
NameMissing(name) == name = ""

\* the handler rejects a request without release name
RenderNoName(r) ==
  /\ pc[r] = "rn_check"
  /\ NameMissing(lv[r].release)
  /\ Return(r, 400, "Release name is required", <<>>)
  /\ UNCHANGED <<lv, store, lastWriter, scratchDir, inode, engineCalls>>

\* h.helmService.RenderChart(...)
RenderCallService(r) ==
  /\ pc[r] = "rn_check"
  /\ ~NameMissing(lv[r].release)
  /\ pc' = [pc EXCEPT ![r] = "rn_load"]
  /\ UNCHANGED <<lv, store, lastWriter, scratchDir, inode, files, dirs, resp, engineCalls>>

\* loader.Load(chartPath) in RenderChart
RenderLoad(r) ==
  /\ pc[r] = "rn_load"
  /\ LET c == Load(store, lv[r].name, lv[r].version) IN
       /\ lv' = [lv EXCEPT ![r].chart = c,
                           ![r].absent = ChartPath(lv[r].name, lv[r].version) \notin DOMAIN store]
       /\ IF c = NoChart
          THEN Return(r, 500, LoadError, <<>>)
          ELSE /\ pc' = [pc EXCEPT ![r] = "rn_run"]
               /\ UNCHANGED <<files, dirs, resp>>
  /\ UNCHANGED <<store, lastWriter, scratchDir, inode, engineCalls>>

\* actionConfig.Init fails
RenderInitFail(r) ==
  /\ pc[r] = "rn_run"
  /\ Return(r, 500, "failed to init action config", <<>>)
  /\ UNCHANGED <<lv, store, lastWriter, scratchDir, inode, engineCalls>>

\* a release that is installed for real
DryRun_Off == FALSE

\* client.DryRun = true
DryRun == TRUE

\* client.ClientOnly = true
ClientOnly == TRUE

\* what action.Install.Run does besides rendering: it writes a release
\* record unless DryRun is set and talks to the cluster unless ClientOnly is
\* set
EngineRun(l) == [l EXCEPT !.stored = ~DryRun, !.cluster = ~ClientOnly]

\* client.Run(chart, values) fails
RenderRunFail(r) ==
  /\ pc[r] = "rn_run"
  /\ engineCalls' = [engineCalls EXCEPT ![r] = @ + 1]
  /\ lv' = [lv EXCEPT ![r] = EngineRun(@)]
  /\ Return(r, 500, "failed to render chart", <<>>)
  /\ UNCHANGED <<store, lastWriter, scratchDir, inode>>

\* client.Run(chart, values) succeeds; the manifests are filtered and returned
RenderRun(r) ==
  /\ pc[r] = "rn_run"
  /\ engineCalls' = [engineCalls EXCEPT ![r] = @ + 1]
  /\ \E m \in EngineOutputs(lv[r].chart.meta.name), sel \in Selections :
       \E out \in RenderResults(m, lv[r].chart.meta.name, sel) :
         /\ lv' = [lv EXCEPT ![r] = [EngineRun(@) EXCEPT !.manifest = m, !.sel = sel]]
         /\ Return(r, 200, "", out)
  /\ UNCHANGED <<store, lastWriter, scratchDir, inode>>

Next ==
  \E r \in Req :
    \/ UploadChartNoFile(r)
    \/ UploadChartStart(r)
    \/ UpCreate(r)
    \/ UpCreateFail(r)
    \/ UpCopy(r)
    \/ UpCopyFail(r)
    \/ UpCopyDone(r)
    \/ UploadChartDirBadForm(r)
    \/ UploadChartDirStart(r)
    \/ DirMkdirTemp(r)
    \/ DirMkdirTempFail(r)
    \/ DirNoFiles(r)
    \/ DirBadHeader(r)
    \/ DirNoPath(r)
    \/ DirSavePart(r)
    \/ DirSavePartFail(r)
    \/ DirCallService(r)
    \/ PkLoad(r)
    \/ PkLoadFail(r)
    \/ PkSave(r)
    \/ PkSaveFail(r)
    \/ PkWrite(r)
    \/ PkWriteDone(r)
    \/ DirOpen(r)
    \/ DirOpenFail(r)
    \/ DirRemove(r)
    \/ DirRemoveFail(r)
    \/ GetChartValues(r)
    \/ ListChartFiles(r)
    \/ ListCharts(r)
    \/ ListChartVersions(r)
    \/ ReadDirFail(r)
    \/ RenderBadJSON(r)
    \/ RenderBind(r)
    \/ RenderNoName(r)
    \/ RenderCallService(r)
    \/ RenderLoad(r)
    \/ RenderInitFail(r)
    \/ RenderRunFail(r)
    \/ RenderRun(r)

Spec == Init /\ [][Next]_vars

(***************************************************************************)
(* Properties                                                              *)
(***************************************************************************)
Range(q) == {q[i] : i \in DOMAIN q}

\* the request has returned
Done(r) == pc[r] = "done"

\* the documents of a joined result text
BodyDocs(body) == IF body = <<>> THEN <<>> ELSE SplitFrom(<<>>, <<>>, body)

\* the marker occurs in the document, position by position
HasMarker(doc, marker) ==
  \E i \in 0..Len(doc) :
    /\ i + Len(marker) <= Len(doc)
    /\ \A j \in 1..Len(marker) : doc[i + j] = marker[j]

\* the bytes an upload request stores: the posted file, or the packaged chart
Payload(r) == IF lv[r].op = "upload" THEN lv[r].src ELSE Serialize(lv[r].chart)

\* C1: a directory upload with a part whose declared path resolves outside
\* the request's temporary root fails with a path-traversal error, and no
\* file or directory is ever created outside the temporary roots.
C1_PathTraversalRejected ==
  /\ \A p \in DOMAIN files \cup (dirs \ {OsTempDir}) : \E r \in Req : IsUnder(TempRoot(r), p)
  /\ \A r \in Req : ~lv[r].escaped

\* C2: once two uploads to the same store file name have both completed,
\* the file holds exactly the complete payload of the request that wrote to
\* it last.
C2_LastWriterWins ==
  \A a, b \in Req :
    ( /\ a # b
      /\ lv[a].op \in {"upload", "uploadDir"} /\ lv[b].op \in {"upload", "uploadDir"}
      /\ Done(a) /\ Done(b)
      /\ resp[a].status = 200 /\ resp[b].status = 200
      /\ lv[a].fname = lv[b].fname )
    => store[lv[a].fname] = Payload(lastWriter[lv[a].fname])

\* C3: when a directory upload that created its temporary root has returned,
\* on whatever path, neither the root nor anything below it exists.
C3_TempRootRemoved ==
  \A r \in Req :
    (Done(r) /\ lv[r].created)
    => \A p \in DOMAIN files \cup dirs : ~IsUnder(TempRoot(r), p)

\* a directory upload has written parts below its root and then failed
C3_Witness ==
  \E r \in Req : Done(r) /\ lv[r].created /\ lv[r].n > 0 /\ resp[r].status = 500

OtherLoadOpErrors ==
  {"Invalid request format", "Release name is required",
   "failed to init action config", "failed to render chart"}

C6_FilteredOnlySelected ==
  \A r \in Req :
    (lv[r].op = "render" /\ Done(r) /\ resp[r].status = 200 /\ lv[r].sel # <<>>)
    => \A d \in Range(BodyDocs(resp[r].body)) :
         /\ d \in Range(SplitManifests(lv[r].manifest))
         /\ \E p \in Range(lv[r].sel) :
              HasMarker(d, <<"# Source: ">> \o lv[r].chart.meta.name \o <<"/">> \o p)

\* a filtered render returned some documents and left one out
C6_Witness ==
  \E r \in Req :
    /\ lv[r].op = "render" /\ Done(r) /\ resp[r].status = 200 /\ lv[r].sel # <<>>
    /\ resp[r].body # <<>>
    /\ \E d \in Range(SplitManifests(lv[r].manifest)) : d \notin Range(BodyDocs(resp[r].body))

\* C7: the documents of a filtered result are documents of the engine
\* output in their original relative order; an output of exactly two
\* resources, both selected, gives exactly those two documents in order.
C7_OrderPreserved ==
  \A r \in Req :
    (lv[r].op = "render" /\ Done(r) /\ resp[r].status = 200 /\ lv[r].sel # <<>>)
    => LET bd == BodyDocs(resp[r].body)
           ms == SplitManifests(lv[r].manifest)
       IN /\ \E ks \in [DOMAIN bd -> DOMAIN ms] :
               /\ \A i \in DOMAIN bd : bd[i] = ms[ks[i]]
               /\ \A i, j \in DOMAIN bd : i < j => ks[i] < ks[j]
          /\ ( /\ Len(ms) = 2
               /\ \A d \in Range(ms) : \E p \in Range(lv[r].sel) :
                    HasMarker(d, SourceMarker(lv[r].chart.meta.name, p)) )
             => bd = ms

\* the document parses and has a string kind
HasKind(doc) == doc # BadDoc /\ \E i \in DOMAIN doc : doc[i] = "kind: "

\* C8: with an empty selection the result holds exactly the parseable
\* documents with a kind: no empty segment, no segment that fails to parse
\* and no segment without kind is part of it.
C8_UnfilteredOnlyKinded ==
  \A r \in Req :
    (lv[r].op = "render" /\ Done(r) /\ resp[r].status = 200 /\ lv[r].sel = <<>>)
    => \A d \in Range(BodyDocs(resp[r].body)) : d # <<>> /\ HasKind(d)

\* C9: after a successful directory upload of a chart with name n and
\* version v the store has an entry named n-v.tgz; demo 1.2.3 gives
\* demo-1.2.3.tgz.
C9_PackagedEntryName ==
  \A r \in Req :
    (lv[r].op = "uploadDir" /\ Done(r) /\ resp[r].status = 200)
    => /\ lv[r].chart.meta.name \o <<"-">> \o lv[r].chart.meta.version \o <<".tgz">> \in DOMAIN store
       /\ lv[r].chart.meta = [name |-> <<"demo">>, version |-> <<"1.2.3">>]
            => <<"demo", "-", "1.2.3", ".tgz">> \in DOMAIN store

\* a directory upload of demo 1.2.3 has succeeded
C9_Witness ==
  \E r \in Req :
    /\ lv[r].op = "uploadDir" /\ Done(r) /\ resp[r].status = 200
    /\ lv[r].chart.meta = [name |-> <<"demo">>, version |-> <<"1.2.3">>]

\* the errors of a directory upload that come from a failing disk
IOFailures ==
  {"failed to package chart", "failed to create chart file", "failed to copy chart file"}

\* C10: a directory upload of a valid chart directory with Chart.yaml and
\* values.yaml succeeds unless the disk fails, and when it returns a load of
\* its {name, version} from the store yields the metadata of its Chart.yaml.
C10_RoundTrip ==
  [][\A r \in Req :
       ( /\ lv[r].op = "uploadDir"
         /\ lv[r].chart \in Charts /\ lv[r].chart.body = "y"
         /\ ~Done(r) /\ pc'[r] = "done"
         /\ resp'[r].err \notin IOFailures )
       => /\ resp'[r].status = 200
          /\ Load(store', lv[r].chart.meta.name, lv[r].chart.meta.version).meta = lv[r].chart.meta]_vars

\* the request never wrote to the store
WroteNothing(r) == \A f \in DOMAIN lastWriter : lastWriter[f] # r

\* C11: a directory upload whose tree has no top-level Chart.yaml or no
\* top-level values.yaml is rejected as a whole and adds nothing to the
\* store.
C11_RequiredFilesEnforced ==
  \A r \in Req :
    ( /\ lv[r].op = "uploadDir" /\ Done(r)
      /\ \/ resp[r].err = LoadError
         \/ lv[r].chart \in Charts /\ lv[r].chart.body = "x" )
    => resp[r].status # 200 /\ WroteNothing(r)

\* the store file was last written by an upload that returned success
StoredOk(f) ==
  /\ f \in DOMAIN store
  /\ Done(lastWriter[f])
  /\ resp[lastWriter[f]].status = 200

\* C12: every entry of the store that a finished upload left there is named
\* <name>-<version>.tgz after the name and version of the archive it holds.
C12_EntryNamedAfterArchive ==
  \A f \in DOMAIN store :
    StoredOk(f)
    => /\ Parse(store[f]) # NoChart
       /\ f = Parse(store[f]).meta.name \o <<"-">> \o Parse(store[f]).meta.version \o <<".tgz">>

\* the step is one of request r
Acts(r) == pc'[r] # pc[r] \/ lv'[r] # lv[r]

\* C13 as stated: once an upload has stored an archive successfully, no
\* step changes its bytes or removes it.
C13_NeverMutated ==
  [][\A f \in DOMAIN store :
       StoredOk(f) => (f \in DOMAIN store' /\ store'[f] = store[f])]_vars

\* C13 as amended: no step removes a store entry, and the bytes of an entry
\* change only in the os.Create or io.Copy step of an upload to that very
\* file name; list, get-values and render steps change nothing.
C13_OnlyUploadOverwrites ==
  [][\A f \in DOMAIN store :
       /\ f \in DOMAIN store'
       /\ store'[f] # store[f]
            => \E r \in Req :
                 /\ Acts(r)
                 /\ pc[r] \in {"up_create", "up_copy"}
                 /\ lv[r].op \in {"upload", "uploadDir"}
                 /\ lv[r].fname = f]_vars

\* an archive was stored and a later upload to another name has succeeded
C13_Witness ==
  \E f \in DOMAIN store :
    /\ StoredOk(f)
    /\ \E r \in Req \ {lastWriter[f]} :
         /\ Done(r) /\ resp[r].status = 200
         /\ lv[r].op \in {"upload", "uploadDir"}
         /\ lv[r].fname # f

\* the file name begins with the chart name followed by a hyphen
HasStem(f, name) ==
  Len(f) > Len(name) + 1 /\ SubSeq(f, 1, Len(name)) = name /\ f[Len(name) + 1] = "-"

C15_RenderHasNoSideEffects ==
  [][\A r \in Req :
       (lv'[r].op = "render" /\ Acts(r))
       => /\ store' = store
          /\ scratchDir' = scratchDir /\ inode' = inode
          /\ files' = files /\ dirs' = dirs
          /\ ~lv'[r].stored /\ ~lv'[r].cluster]_vars

\* a render has called the engine while the store and the scratch directory
\* held files
C15_Witness ==
  \E r \in Req :
    /\ lv[r].op = "render" /\ Done(r) /\ engineCalls[r] > 0
    /\ DOMAIN store # {}
    /\ \E o \in Req \ {r} : lv[o].op = "uploadDir" /\ pc[o] \in {"up_create", "up_copy", "dir_remove"}

\* C16: when a directory upload that packaged its chart returns, with
\* success or with an error, the scratch directory has no file of the
\* packaged name.
C16_ScratchCleared ==
  [][\A r \in Req :
       ( /\ lv[r].op = "uploadDir"
         /\ pc[r] \in {"dir_open", "up_create", "up_copy", "dir_remove"}
         /\ pc'[r] = "done" )
       => PackagedFileName(lv[r].chart) \notin DOMAIN scratchDir']_vars

\* C17: when an upload has returned an error, the store file it was to
\* write is as the call found it (absent, or with its previous bytes),
\* unless the other request wrote it since; an upload that failed before it
\* reached UploadChart wrote nothing.
C17_FailedUploadLeavesStore ==
  \A r \in Req :
    (Done(r) /\ lv[r].op \in {"upload", "uploadDir"} /\ resp[r].status # 200)
    => IF lv[r].fname = <<>>
       THEN WroteNothing(r)
       ELSE \/ Snapshot(store, lv[r].fname) = lv[r].pre
            \/ lv[r].fname \in DOMAIN lastWriter /\ lastWriter[lv[r].fname] # r

\* the other request is inside UploadChart
UploadInFlight(r) == \E o \in Req \ {r} : pc[o] \in {"up_create", "up_copy"}

\* C18: a load or a listing that runs while an upload is in flight reads,
\* or lists, only files that hold the complete payload of one upload.
C18_NoPartialRead ==
  [][\A r \in Req :
       UploadInFlight(r)
       => /\ ( \/ pc[r] = "idle" /\ pc'[r] = "done" /\ lv'[r].op \in {"values", "files"}
               \/ pc[r] = "rn_load" /\ Acts(r) )
             => \/ ChartPath(lv'[r].name, lv'[r].version) \notin DOMAIN store
                \/ store[ChartPath(lv'[r].name, lv'[r].version)] \in UploadPayloads
          /\ (pc[r] = "idle" /\ pc'[r] = "done" /\ lv'[r].op = "list" /\ resp'[r].status = 200)
             => \A f \in resp'[r].body : store[f] \in UploadPayloads]_vars

\* C19: two directory uploads of charts with the same name and version,
\* both past packaging and neither hit by a failing disk, both return
\* success, and the store entry is the complete archive of one of them.
C19_NoScratchInterference ==
  \A a, b \in Req :
    ( /\ a # b
      /\ lv[a].op = "uploadDir" /\ lv[b].op = "uploadDir"
      /\ Done(a) /\ Done(b)
      /\ lv[a].chart \in Charts /\ lv[b].chart \in Charts
      /\ lv[a].chart.meta = lv[b].chart.meta
      /\ resp[a].err \notin IOFailures /\ resp[b].err \notin IOFailures )
    => /\ resp[a].status = 200 /\ resp[b].status = 200
       /\ PackagedFileName(lv[a].chart) \in DOMAIN store
       /\ store[PackagedFileName(lv[a].chart)] \in {Serialize(lv[a].chart), Serialize(lv[b].chart)}

\* C20: a load by {name, version} of a file that a successful directory
\* upload stored yields a chart with that name and version.
C20_AddressingInjective ==
  \A r \in Req :
    ( /\ Done(r) /\ lv[r].op \in {"values", "render", "files"}
      /\ lv[r].chart # NoChart
      /\ StoredOk(ChartPath(lv[r].name, lv[r].version))
      /\ lv[lastWriter[ChartPath(lv[r].name, lv[r].version)]].op = "uploadDir" )
    => lv[r].chart.meta = [name |-> lv[r].name, version |-> lv[r].version]

====
